---- MODULE Spec2Model ----
(***************************************************************************)
(* Model of video_to_frames.py: the frame extraction engine                *)
(* (VideoProcessor.process) and the run protocol of the window that drives *)
(* it (VideoToFramesGUI._start_processing / _process_complete).            *)
(*                                                                         *)
(* Rates are whole frames per second, so int(video_fps / fps) is the       *)
(* integer quotient.  A progress value n / d is kept as the pair <<n, d>>. *)
(* What the video file holds is decided by the environment at the moment   *)
(* the engine observes it (isOpened, the two cap.get calls, each           *)
(* cap.read).  The output directory path and the image format are fixed    *)
(* during a run and are left out.                                          *)
(***************************************************************************)
EXTENDS Integers, Sequences, FiniteSets

\* ---- bounds of the exploration ----
MaxFrames == 4
MaxTotal == 4
MaxFps == 3

\* width of the zero padded number in a frame file name
PadWidth == 4

\* contents the rate entry field is given
EntryTexts ==
  { <<>>, <<"x">>, <<"0">>, <<"1">>, <<"2">>, <<"3">>, <<"-", "1">> }

VARIABLES
  has_video_path,   \* hasattr(self, 'video_path')
  fps_entry,        \* text of self.fps_entry
  start_button,     \* state of self.start_button
  status_label,     \* what self.status_label shows
  revealed,         \* the output folder was opened in the file browser
  thread,           \* the worker thread of the last click
  after_queue,      \* _process_complete calls queued by app.after
  config_fps,       \* self.processor.config.fps
  last_output_dir,  \* hasattr(self.processor, 'last_output_dir')
  pc,               \* position of the worker inside process()
  cap,              \* the cv2.VideoCapture handle
  total_frames,
  video_fps,
  frame_interval,
  current_frame,
  frame_count,
  dir_created,      \* os.makedirs made the output directory in this run
  files,            \* files written in this run, oldest first
  progress,         \* values passed to progress_callback in this run
  nread,            \* frames cap.read() delivered in this run
  fault,            \* what the environment did wrong in this run
  result            \* what process() returned

gui_vars == <<has_video_path, fps_entry, start_button, status_label, revealed>>
thread_vars == <<thread, after_queue>>
processor_vars == <<config_fps, last_output_dir>>
local_vars == <<cap, total_frames, video_fps, frame_interval, current_frame, frame_count>>
env_vars == <<dir_created, files, progress, nread, fault>>
vars == <<gui_vars, thread_vars, processor_vars, pc, local_vars, env_vars, result>>

Unset == 0 - 1
NoResult == [ok |-> FALSE, kind |-> "none", arg |-> 0, exc |-> ""]

Max(a, b) == IF a >= b THEN a ELSE b

\* ---- float(self.fps_entry.get()) on texts made of a sign and digits ----
DigitChars == <<"0", "1", "2", "3", "4", "5", "6", "7", "8", "9">>

IsDigit(c) == \E d \in 1..10 : DigitChars[d] = c

DigitValue(c) == (CHOOSE d \in 1..10 : DigitChars[d] = c) - 1

RECURSIVE DecimalValue(_)
DecimalValue(s) ==
  IF s = <<>> THEN 0
  ELSE 10 * DecimalValue(SubSeq(s, 1, Len(s) - 1)) + DigitValue(s[Len(s)])

ParseFloat(text) ==
  LET negative == text # <<>> /\ text[1] = "-"
      body == IF negative THEN Tail(text) ELSE text
      wellFormed == body # <<>> /\ \A i \in 1..Len(body) : IsDigit(body[i])
  IN IF ~wellFormed THEN [ok |-> FALSE, value |-> 0]
     ELSE [ok |-> TRUE,
           value |-> IF negative THEN 0 - DecimalValue(body) ELSE DecimalValue(body)]

\* ---- f"frame_{frame_count:04d}" ----
RECURSIVE Digits(_)
Digits(n) == IF n < 10 THEN <<n>> ELSE Digits(n \div 10) \o <<n % 10>>

ZeroPad(s, w) == IF Len(s) >= w THEN s ELSE [i \in 1..(w - Len(s)) |-> 0] \o s

FrameName(n) == ZeroPad(Digits(n), PadWidth)

\* ---- the checks and the arithmetic of process() ----
InvalidRateMutant(fps) == fps < 0
InvalidRate(fps) == fps <= 0

RateExceedsSourceMutant(fps, native) == fps > native + 1
RateExceedsSource(fps, native) == fps > native

FrameIntervalMutant(native, fps) == Max(1, (native \div fps) + 1)
FrameInterval(native, fps) == Max(1, native \div fps)

IsSelected(ordinal, interval) == ordinal % interval = 0

SaveIndexMutant(count, ordinal) == ordinal
SaveIndex(count, ordinal) == count

\* except Exception as e: return False, f"错误: {str(e)}"
Raise(name) ==
  /\ result' = [ok |-> FALSE, kind |-> "Error", arg |-> 0, exc |-> name]
  /\ pc' = "done"

Return(ok, kind, arg) ==
  /\ result' = [ok |-> ok, kind |-> kind, arg |-> arg, exc |-> ""]
  /\ pc' = "done"

Init ==
  /\ has_video_path = FALSE
  /\ fps_entry = <<"1">>
  /\ start_button = "normal"
  /\ status_label = "ready"
  /\ revealed = FALSE
  /\ thread = "none"
  /\ after_queue = <<>>
  /\ config_fps = 0
  /\ last_output_dir = FALSE
  /\ pc = "idle"
  /\ cap = "none"
  /\ total_frames = Unset
  /\ video_fps = Unset
  /\ frame_interval = Unset
  /\ current_frame = 0
  /\ frame_count = 0
  /\ dir_created = FALSE
  /\ files = <<>>
  /\ progress = <<>>
  /\ nread = 0
  /\ fault = "none"
  /\ result = NoResult

\* ---- the window ----
SelectVideo ==
  /\ \E path \in BOOLEAN : path /\ has_video_path' = TRUE
  /\ UNCHANGED <<fps_entry, start_button, status_label, revealed>>
  /\ UNCHANGED <<thread_vars, processor_vars, pc, local_vars, env_vars, result>>

EditFps ==
  /\ \E text \in EntryTexts : fps_entry' = text
  /\ UNCHANGED <<has_video_path, start_button, status_label, revealed>>
  /\ UNCHANGED <<thread_vars, processor_vars, pc, local_vars, env_vars, result>>

StartProcessing ==
  /\ start_button = "normal"
  /\ IF ~has_video_path
     THEN /\ status_label' = "select_video_first"
          /\ UNCHANGED <<has_video_path, fps_entry, start_button, revealed>>
          /\ UNCHANGED <<thread_vars, processor_vars, pc, local_vars, env_vars, result>>
     ELSE /\ start_button' = "disabled"
          /\ status_label' = "processing"
          /\ UNCHANGED <<has_video_path, fps_entry, revealed>>
          /\ LET parsed == ParseFloat(fps_entry)
             IN IF ~parsed.ok
                THEN \* ValueError leaves the handler here
                     UNCHANGED <<thread_vars, processor_vars, pc, local_vars, env_vars, result>>
                ELSE /\ config_fps' = parsed.value
                     /\ last_output_dir' = FALSE
                     /\ thread' = "running"
                     /\ UNCHANGED after_queue
                     /\ pc' = "open"
                     /\ cap' = "none"
                     /\ total_frames' = Unset
                     /\ video_fps' = Unset
                     /\ frame_interval' = Unset
                     /\ current_frame' = 0
                     /\ frame_count' = 0
                     /\ dir_created' = FALSE
                     /\ files' = <<>>
                     /\ progress' = <<>>
                     /\ nread' = 0
                     /\ fault' = "none"
                     /\ result' = NoResult

ThreadFinish ==
  /\ thread = "running"
  /\ pc = "done"
  /\ after_queue' = Append(after_queue, result)
  /\ thread' = "none"
  /\ pc' = "idle"
  /\ UNCHANGED <<gui_vars, processor_vars, local_vars, env_vars, result>>

ProcessComplete ==
  /\ after_queue # <<>>
  /\ LET message == Head(after_queue)
     IN /\ status_label' = message.kind
        /\ start_button' = "normal"
        /\ revealed' = (message.ok /\ last_output_dir /\ dir_created)
  /\ after_queue' = Tail(after_queue)
  /\ UNCHANGED <<has_video_path, fps_entry, thread>>
  /\ UNCHANGED <<processor_vars, pc, local_vars, env_vars, result>>

\* ---- process(), run by the worker thread ----
Open ==
  /\ thread = "running"
  /\ pc = "open"
  /\ \E opened \in BOOLEAN :
       IF ~opened
       THEN /\ cap' = "closed"
            /\ Return(FALSE, "SourceUnreadable", 0)
       ELSE /\ cap' = "open"
            /\ pc' = "validate"
            /\ UNCHANGED result
  /\ UNCHANGED <<total_frames, video_fps, frame_interval, current_frame, frame_count>>
  /\ UNCHANGED <<gui_vars, thread_vars, processor_vars, env_vars>>

Validate ==
  /\ thread = "running"
  /\ pc = "validate"
  /\ \E count \in 0..MaxTotal, native \in 0..MaxFps :
       /\ total_frames' = count
       /\ video_fps' = native
       /\ IF InvalidRate(config_fps)
          THEN /\ Return(FALSE, "InvalidRate", 0)
               /\ UNCHANGED frame_interval
          ELSE IF RateExceedsSource(config_fps, native)
          THEN /\ Return(FALSE, "RateExceedsSource", native)
               /\ UNCHANGED frame_interval
          ELSE IF config_fps = 0
          THEN /\ Raise("ZeroDivisionError")
               /\ UNCHANGED frame_interval
          ELSE /\ frame_interval' = FrameInterval(native, config_fps)
               /\ pc' = "makedirs"
               /\ UNCHANGED result
  /\ UNCHANGED <<cap, current_frame, frame_count>>
  /\ UNCHANGED <<gui_vars, thread_vars, processor_vars, env_vars>>

MakeDirs ==
  /\ thread = "running"
  /\ pc = "makedirs"
  /\ dir_created' = TRUE
  /\ current_frame' = 0
  /\ frame_count' = 0
  /\ pc' = "read"
  /\ UNCHANGED <<cap, total_frames, video_fps, frame_interval>>
  /\ UNCHANGED <<files, progress, nread, fault, result>>
  /\ UNCHANGED <<gui_vars, thread_vars, processor_vars>>

MakeDirsFail ==
  /\ thread = "running"
  /\ pc = "makedirs"
  /\ fault' = "makedirs"
  /\ Raise("OSError")
  /\ UNCHANGED <<dir_created, files, progress, nread>>
  /\ UNCHANGED <<gui_vars, thread_vars, processor_vars, local_vars>>

ReadFrame ==
  /\ thread = "running"
  /\ pc = "read"
  /\ nread < MaxFrames
  /\ nread' = nread + 1
  /\ pc' = "select"
  /\ UNCHANGED <<dir_created, files, progress, fault, result>>
  /\ UNCHANGED <<gui_vars, thread_vars, processor_vars, local_vars>>

\* ret is False: break, cap.release(), self.last_output_dir = ..., return True
LeaveLoop ==
  /\ cap' = "released"
  /\ last_output_dir' = TRUE
  /\ Return(TRUE, "Finished", frame_count)
  /\ UNCHANGED <<total_frames, video_fps, frame_interval, current_frame, frame_count>>
  /\ UNCHANGED <<gui_vars, thread_vars, config_fps>>

ReadEndOfStream ==
  /\ thread = "running"
  /\ pc = "read"
  /\ LeaveLoop
  /\ UNCHANGED env_vars

ReadDecodeFault ==
  /\ thread = "running"
  /\ pc = "read"
  /\ fault' = "decode"
  /\ LeaveLoop
  /\ UNCHANGED <<dir_created, files, progress, nread>>

Select ==
  /\ thread = "running"
  /\ pc = "select"
  /\ IF IsSelected(current_frame, frame_interval)
     THEN /\ files' = Append(files, [name |-> FrameName(SaveIndex(frame_count, current_frame)),
                                     ordinal |-> current_frame])
          /\ frame_count' = frame_count + 1
     ELSE UNCHANGED <<files, frame_count>>
  /\ pc' = "report"
  /\ UNCHANGED <<cap, total_frames, video_fps, frame_interval, current_frame>>
  /\ UNCHANGED <<dir_created, progress, nread, fault, result>>
  /\ UNCHANGED <<gui_vars, thread_vars, processor_vars>>

SaveFail ==
  /\ thread = "running"
  /\ pc = "select"
  /\ IsSelected(current_frame, frame_interval)
  /\ fault' = "save"
  /\ Raise("SaveError")
  /\ UNCHANGED <<dir_created, files, progress, nread>>
  /\ UNCHANGED <<gui_vars, thread_vars, processor_vars, local_vars>>

Report ==
  /\ thread = "running"
  /\ pc = "report"
  /\ current_frame' = current_frame + 1
  /\ IF total_frames = 0
     THEN /\ Raise("ZeroDivisionError")
          /\ UNCHANGED progress
     ELSE /\ progress' = Append(progress, <<current_frame + 1, total_frames>>)
          /\ pc' = "read"
          /\ UNCHANGED result
  /\ UNCHANGED <<cap, total_frames, video_fps, frame_interval, frame_count>>
  /\ UNCHANGED <<dir_created, files, nread, fault>>
  /\ UNCHANGED <<gui_vars, thread_vars, processor_vars>>

Next ==
  \/ SelectVideo
  \/ EditFps
  \/ StartProcessing
  \/ ThreadFinish
  \/ ProcessComplete
  \/ Open
  \/ Validate
  \/ MakeDirs
  \/ MakeDirsFail
  \/ ReadFrame
  \/ ReadEndOfStream
  \/ ReadDecodeFault
  \/ Select
  \/ SaveFail
  \/ Report

Spec == Init /\ [][Next]_vars

\* ---- notions the properties below are stated with ----
\* process() has returned in the current run
Returned == result.kind # "none"

\* the source was opened by this run
Opened == cap = "open" \/ cap = "released"

SavedOrdinals == { files[i].ordinal : i \in 1..Len(files) }

RECURSIVE NameIndex(_)
NameIndex(digits) ==
  IF digits = <<>> THEN 0
  ELSE 10 * NameIndex(SubSeq(digits, 1, Len(digits) - 1)) + digits[Len(digits)]

ActiveWorkers == (IF thread = "running" THEN 1 ELSE 0) + Len(after_queue)

\* C1: with 0 < r <= R the interval is max(1, floor(R / r)); the ordinals handed
\* to _save_frame are multiples of the interval, none below the read position is
\* skipped, and on a source that reports and delivers T frames without an
\* environment fault the run succeeds having saved exactly the multiples of the
\* interval in [0, T).
C1_SelectedOrdinals ==
  frame_interval # Unset =>
    /\ 0 < config_fps /\ config_fps <= video_fps
    /\ frame_interval = (IF video_fps \div config_fps >= 1 THEN video_fps \div config_fps ELSE 1)
    /\ \A k \in SavedOrdinals : k % frame_interval = 0 /\ k < nread
    /\ \A i \in 0..(current_frame - 1) : i % frame_interval = 0 => i \in SavedOrdinals
    /\ (Returned /\ fault = "none" /\ total_frames = nread) =>
         /\ result.ok
         /\ SavedOrdinals = { i \in 0..(total_frames - 1) : i % frame_interval = 0 }

C1_Witness ==
  /\ Returned /\ result.ok /\ fault = "none" /\ total_frames = nread
  /\ frame_interval = 2
  /\ SavedOrdinals = {0, 2}
  /\ nread = 4

\* C2: the files written so far carry the indices 0 .. frame_count - 1 in the
\* order they were written, as numerals of at least four digits, and the file of
\* index k holds the frame of ordinal k * interval.
C2_SequentialNames ==
  /\ Len(files) = frame_count
  /\ \A i \in 1..Len(files) :
       /\ Len(files[i].name) >= PadWidth
       /\ NameIndex(files[i].name) = i - 1
       /\ files[i].ordinal = (i - 1) * frame_interval

C2_Witness ==
  /\ frame_interval >= 2
  /\ Len(files) >= 2
  /\ files[2].ordinal # NameIndex(files[2].name)
  /\ pc = "report"

\* C3: when process() has returned after opening the source, the handle has
\* been released.
C3_HandleReleased == (Returned /\ Opened) => cap = "released"

\* C4 as stated: every request with r <= 0 ends in InvalidRate, with no
\* directory and no file.
C4_Original ==
  (Returned /\ config_fps <= 0) =>
    /\ ~result.ok
    /\ result.kind = "InvalidRate"
    /\ ~dir_created
    /\ files = <<>>

\* C4 amended: a request with r <= 0 never creates the directory or a file; it
\* fails with InvalidRate when the source opens and with SourceUnreadable when
\* it does not.
C4_InvalidRate ==
  config_fps <= 0 =>
    /\ ~dir_created
    /\ files = <<>>
    /\ nread = 0
    /\ Returned =>
         /\ ~result.ok
         /\ Opened => result.kind = "InvalidRate"
         /\ ~Opened => result.kind = "SourceUnreadable"

C4_Witness ==
  /\ Returned
  /\ Opened
  /\ config_fps <= 0
  /\ result.kind = "InvalidRate"

\* C5: a request with r > R fails with RateExceedsSource, the message carries
\* R, and no frame is read, no directory created and no file written.
C5_RateExceedsSource ==
  (video_fps # Unset /\ config_fps > video_fps) =>
    /\ nread = 0
    /\ ~dir_created
    /\ files = <<>>
    /\ Returned =>
         /\ ~result.ok
         /\ result.kind = "RateExceedsSource"
         /\ result.arg = video_fps

C5_Witness ==
  /\ Returned
  /\ result.kind = "RateExceedsSource"
  /\ video_fps = 2
  /\ config_fps = 3

\* C6: the callback has been invoked once per frame read, the i-th time with
\* i / T; the values never decrease; and when the source reports as many frames
\* as it delivers and is exhausted normally the last value is 1.
C6_ProgressPerRead ==
  /\ ((pc = "read" \/ Returned) /\ fault = "none") =>
       /\ Len(progress) = nread
       /\ \A i \in 1..Len(progress) : progress[i] = <<i, total_frames>>
  /\ \A i \in 1..(Len(progress) - 1) :
       progress[i][1] * progress[i + 1][2] <= progress[i + 1][1] * progress[i][2]
  /\ (Returned /\ result.ok /\ fault = "none" /\ total_frames = nread /\ progress # <<>>) =>
       progress[Len(progress)][1] = progress[Len(progress)][2]

\* C7: every value passed to the progress callback lies in [0, 1].
C7_ProgressInRange ==
  \A i \in 1..Len(progress) :
    /\ progress[i][2] > 0
    /\ 0 <= progress[i][1]
    /\ progress[i][1] <= progress[i][2]

\* C8: a run whose read failed mid-stream with a decode error returns failure.
C8_DecodeErrorFails == (Returned /\ fault = "decode") => ~result.ok

\* C9: on a source that reports T = 0 the run does not fail because of the
\* progress computation: without an environment fault it returns success.
C9_ZeroTotalSucceeds ==
  (Returned /\ Opened /\ frame_interval # Unset /\ total_frames = 0 /\ fault = "none") =>
    /\ result.ok
    /\ result.exc # "ZeroDivisionError"

\* C10: while the start button is disabled, exactly one worker of that click is
\* running or has its completion queued on the event loop.
C10_DisabledHasWorker == start_button = "disabled" => ActiveWorkers = 1

====
